---------------------------- MODULE Spec2Model ----------------------------
(***************************************************************************)
(* Tool-to-capability adaptation layer of the four agent drivers:          *)
(*   swap       src/swap/index.ts      (Jupiter + DexScreener)             *)
(*   dex        src/unnamed/part_000   (DexScreener)                       *)
(*   allora     src/allora/index.ts    (Allora price prediction)           *)
(*   coingecko  src/README.md:132-323  (CoinGecko)                         *)
(*                                                                         *)
(* A JavaScript string is a sequence of one-character strings.  A text     *)
(* built from a template literal is the concatenation of its parts; a      *)
(* fixed phrase of a template is one element of the sequence.              *)
(*                                                                         *)
(* Spec          one deployment: discovery, selection, registration,       *)
(*               building, addCapabilities, start, and the host's          *)
(*               (possibly concurrent) capability invocations.             *)
(* SpecRun       the run closures applied to a registry one of whose       *)
(*               entries may be missing.                                   *)
(* SpecDesc      the description a capability is built with.               *)
(* SpecObserver  the wrapper installed around completions.create.          *)
(* SpecPair      several capability invocations in flight at once.         *)
(***************************************************************************)
EXTENDS Integers, Sequences, FiniteSets, TLC

VARIABLES
    driver,         \* which of the four driver scripts runs
    pc,             \* position of the driver script / main()
    started,        \* agent.start() has been called
    allTools,       \* getTools() result: the tools' names, a tool is its index
    selected,       \* the filtered tools, in build order: [tool, toolType]
    idx,            \* loop index of the forEach / map in progress
    toolNameMap,    \* the registry: formatted name -> tool
    capabilities,   \* the capabilities built so far
    hostCaps,       \* what addCapabilities handed to the host
    addCalls,       \* number of addCapabilities calls made
    calls,          \* the host's capability invocations
    descOrig,       \* SpecDesc: the description the provider listed
    descTool,       \* SpecDesc: tool.description
    descCap,        \* SpecDesc: the built capability's description
    descPc,         \* SpecDesc: position
    obs             \* SpecObserver: the wrapped completion call

vars == <<driver, pc, started, allTools, selected, idx, toolNameMap,
          capabilities, hostCaps, addCalls, calls,
          descOrig, descTool, descCap, descPc, obs>>

mainVars == <<driver, pc, started, allTools, selected, idx, toolNameMap,
              capabilities, hostCaps, addCalls, calls>>

descVars == <<descOrig, descTool, descCap, descPc>>

-----------------------------------------------------------------------------
(* Bounds of the model *)

\* the number of tools getTools lists
MaxTools == 2

\* the number of capability invocations the host makes, all of which may be
\* in flight at once
MaxCalls == 1

-----------------------------------------------------------------------------
(* Strings *)

Max(S) == CHOOSE x \in S : \A y \in S : y <= x

UpperChars == <<"A","B","C","D","E","F","G","H","I","J","K","L","M",
                "N","O","P","Q","R","S","T","U","V","W","X","Y","Z">>

LowerChars == <<"a","b","c","d","e","f","g","h","i","j","k","l","m",
                "n","o","p","q","r","s","t","u","v","w","x","y","z">>

\* String.prototype.toLowerCase
toLowerCase(s) ==
    [i \in 1..Len(s) |->
        IF \E k \in 1..26 : UpperChars[k] = s[i]
        THEN LowerChars[CHOOSE k \in 1..26 : UpperChars[k] = s[i]]
        ELSE s[i]]

\* String.prototype.includes
includes(s, sub) ==
    \E i \in 0..(Len(s) - Len(sub)) : SubSeq(s, i + 1, i + Len(sub)) = sub

\* String.prototype.startsWith
startsWith(s, sub) ==
    Len(sub) <= Len(s) /\ SubSeq(s, 1, Len(sub)) = sub

\* name.split('.').pop(): the text after the last '.', the whole name when
\* it has none
splitPop(name) ==
    LET dots == {i \in 1..Len(name) : name[i] = "."}
    IN  IF dots = {} THEN name ELSE SubSeq(name, Max(dots) + 1, Len(name))

\* a || b on strings: the empty string is falsy
OrElse(a, b) == IF a = <<>> THEN b ELSE a

\* formatToolName: name.replace(/\./g, '_')
formatToolName(name) ==
    [i \in 1..Len(name) |-> IF name[i] = "." THEN "_" ELSE name[i]]

-----------------------------------------------------------------------------
(* Literals of the sources *)

s_dexscreener == <<"d","e","x","s","c","r","e","e","n","e","r">>

s_dexscreener_search_pairs ==
    <<"d","e","x","s","c","r","e","e","n","e","r",".",
      "s","e","a","r","c","h","_","p","a","i","r","s">>

s_jupiter == <<"j","u","p","i","t","e","r">>

s_quote == <<"q","u","o","t","e">>

s_swap == <<"s","w","a","p">>

s_get_quote == <<"g","e","t","_","q","u","o","t","e">>

s_swapTokens == <<"s","w","a","p","T","o","k","e","n","s">>

s_allora == <<"a","l","l","o","r","a">>

s_price == <<"p","r","i","c","e">>

s_prediction == <<"p","r","e","d","i","c","t","i","o","n">>

s_get_price_prediction ==
    <<"g","e","t","_","p","r","i","c","e","_",
      "p","r","e","d","i","c","t","i","o","n">>

s_price_prediction ==
    <<"p","r","i","c","e","_","p","r","e","d","i","c","t","i","o","n">>

s_get_chain == <<"g","e","t","_","c","h","a","i","n">>

\* the fixed phrases of the template literals and messages
MissingKeyText ==
    <<"Error: Missing userPublicKey for ">> \o s_swap \o <<" operation.">>

ErrorPrefix == <<"An error occurred while running ">>

ColonSpace == <<":", " ">>

NotFoundPrefix == <<"Original tool not found for ">>

UnknownError == <<"Unknown error">>


-----------------------------------------------------------------------------
(* The tools a provider may list.  A tool is identified by its position in  *)
(* the list getTools returned; two tools may carry the same name.           *)

n_dexscreener_search_pairs == s_dexscreener_search_pairs

n_dexscreener_search_pairs_flat ==
    <<"d","e","x","s","c","r","e","e","n","e","r","_",
      "s","e","a","r","c","h","_","p","a","i","r","s">>

n_x_quote == <<"x", ".">> \o s_quote

n_y_get_quote == <<"y", ".">> \o s_get_quote

n_j_swapTokens == <<"j", ".">> \o s_swapTokens

n_a_price_prediction == <<"a", ".">> \o s_price_prediction

n_b_get_price_prediction == <<"b", ".">> \o s_get_price_prediction

n_allora_dot == s_allora \o <<".">>

n_c_get_chain == <<"c", ".">> \o s_get_chain

Drivers == {"swap", "dex", "allora", "coingecko"}

RegistryDrivers == {"swap", "dex", "coingecko"}

\* the names the provider of each deployment is taken to list
Catalog(d) ==
    CASE d = "swap" ->
            {n_x_quote, n_y_get_quote, n_j_swapTokens,
             n_dexscreener_search_pairs, n_dexscreener_search_pairs_flat}
      [] d = "dex" ->
            {n_dexscreener_search_pairs, n_dexscreener_search_pairs_flat, n_x_quote}
      [] d = "allora" ->
            {n_a_price_prediction, n_b_get_price_prediction, n_allora_dot, n_x_quote}
      [] d = "coingecko" ->
            {n_dexscreener_search_pairs, n_dexscreener_search_pairs_flat, n_c_get_chain}

ToolLists(d) == UNION {[1..n -> Catalog(d)] : n \in 0..MaxTools}

-----------------------------------------------------------------------------
(* Selection policies *)

RECURSIVE SortedSeq(_)
\* the elements of a set of indices in ascending order: Array.prototype.filter
\* keeps the order of the array
SortedSeq(S) ==
    IF S = {} THEN <<>>
    ELSE LET m == CHOOSE x \in S : \A y \in S : x <= y
         IN  <<m>> \o SortedSeq(S \ {m})

\* swap: jupiterTools
isJupiterTool(name) ==
    \/ includes(toLowerCase(name), s_jupiter)
    \/ includes(toLowerCase(name), s_quote)
    \/ includes(toLowerCase(name), s_swap)

\* swap: filteredDexscreenerTools
isFilteredDexscreenerTool(name) ==
    startsWith(name, s_dexscreener) /\ name = s_dexscreener_search_pairs

\* dex: tools
isDexTool(name) == startsWith(name, s_dexscreener)

\* allora: alloraTools
isAlloraTool(name) ==
    \/ includes(toLowerCase(name), s_allora)
    \/ includes(toLowerCase(name), s_price)
    \/ includes(toLowerCase(name), s_prediction)

\* coingecko: tools
isCoingeckoTool(name) == ~ includes(name, s_get_chain)

Tagged(kept, type) ==
    LET keep == SortedSeq(kept)
    IN  [k \in 1..Len(keep) |-> [tool |-> keep[k], toolType |-> type]]

\* the tools a deployment builds capabilities from, in build order
selectTools(d, names) ==
    LET pos == 1..Len(names)
    IN  CASE d = "swap" ->
                Tagged({i \in pos : isJupiterTool(names[i])}, "jupiter")
                \o Tagged({i \in pos : isFilteredDexscreenerTool(names[i])},
                          "dexscreener")
          [] d = "dex" -> Tagged({i \in pos : isDexTool(names[i])}, "none")
          [] d = "allora" -> Tagged({i \in pos : isAlloraTool(names[i])}, "none")
          [] d = "coingecko" ->
                Tagged({i \in pos : isCoingeckoTool(names[i])}, "none")

-----------------------------------------------------------------------------
(* Capability names *)

\* tool.name.split('.').pop() || tool.name
functionName(name) == OrElse(splitPop(name), name)

\* swap: nameMap[baseName] || baseName
jupiterNameMap(b) ==
    CASE b = s_get_quote -> s_get_quote
      [] b = s_quote -> s_get_quote
      [] b = s_swapTokens -> s_swap
      [] b = s_swap -> s_swap
      [] OTHER -> b

\* allora: nameMap[baseName] || baseName
alloraNameMap(b) ==
    CASE b = s_get_price_prediction -> s_get_price_prediction
      [] b = s_price_prediction -> s_get_price_prediction
      [] OTHER -> b

\* swap: baseName
swapBaseName(name, toolType) ==
    LET b == OrElse(functionName(name), name)
    IN  IF toolType = "jupiter" THEN jupiterNameMap(b) ELSE b

baseNameOf(d, name, toolType) ==
    CASE d = "swap" -> swapBaseName(name, toolType)
      [] d = "allora" -> alloraNameMap(OrElse(functionName(name), name))
      [] OTHER -> name

\* the name of the capability built from a tool
capabilityName(d, name, toolType) ==
    IF d = "allora"
    THEN baseNameOf(d, name, toolType)
    ELSE formatToolName(baseNameOf(d, name, toolType))

MapSet_keepsFirst(m, k, v) ==
    [x \in DOMAIN m \cup {k} |-> IF x \in DOMAIN m THEN m[x] ELSE v]

\* Map.prototype.set
MapSet(m, k, v) == [x \in DOMAIN m \cup {k} |-> IF x = k THEN v ELSE m[x]]

EmptyMap == [x \in {} |-> 0]


-----------------------------------------------------------------------------
(* What a tool's execute may do, and the values it may return *)

Num(n) == [t |-> "num", n |-> n]

Str(s) == [t |-> "str", s |-> s]

Null == [t |-> "null"]

Undefined == [t |-> "undefined"]

Arr(items) == [t |-> "arr", items |-> items]

Obj(fields) == [t |-> "obj", fields |-> fields]

\* { price: 123 }
PriceObject == Obj(<< <<s_price, Num(123)>> >>)

\* { pairs: [ { price: 7 }, null ], quote: "ok" }
NestedObject ==
    Obj(<< << <<"p","a","i","r","s">>, Arr(<<Obj(<< <<s_price, Num(7)>> >>), Null>>) >>,
           << s_quote, Str(<<"o","k">>) >> >>)

BoomMessage == <<"b","o","o","m">>

\* the ways execute(args) may settle; a call that never settles stays awaiting
Outcomes ==
    {"object", "nested", "null", "string", "number", "undefined",
     "throwsError", "throwsString"}

Throws(o) == o \in {"throwsError", "throwsString"}

\* the value execute resolves to
Response(o) ==
    CASE o = "object" -> PriceObject
      [] o = "nested" -> NestedObject
      [] o = "null" -> Null
      [] o = "string" -> Str(<<"o","k">>)
      [] o = "number" -> Num(42)
      [] o = "undefined" -> Undefined

\* the value execute throws or rejects with: new Error('boom'), or 'boom'
Thrown(o) ==
    CASE o = "throwsError" -> [isError |-> TRUE, message |-> BoomMessage]
      [] o = "throwsString" -> [isError |-> FALSE, message |-> BoomMessage]

\* the args the host may pass to run
ArgsValues == {"undefined", "empty", "withKey"}

\* args is an object (the right operand 'in' accepts)
IsObject(a) == a \in {"empty", "withKey"}

\* 'userPublicKey' in args, for an object
HasUserPublicKey(a) == a = "withKey"

InOperatorTypeError ==
    [isError |-> TRUE,
     message |-> <<"Cannot use 'in' operator to search for 'userPublicKey' in ">>]

ToStringTypeError ==
    [isError |-> TRUE,
     message |-> <<"Cannot read properties of undefined (reading 'toString')">>]

-----------------------------------------------------------------------------
(* Normalisation of a response *)

Digit(k) == <<"0","1","2","3","4","5","6","7","8","9">>[k + 1]

RECURSIVE Digits(_)
\* Number.prototype.toString of a natural number
Digits(n) == IF n < 10 THEN <<Digit(n)>> ELSE Digits(n \div 10) \o <<Digit(n % 10)>>

Spaces(k) == [i \in 1..k |-> " "]

Quoted(s) == <<"\"">> \o s \o <<"\"">>

RECURSIVE Stringify(_, _, _)
RECURSIVE StringifyItems(_, _, _)
RECURSIVE StringifyFields(_, _, _)
\* JSON.stringify(v, null, gap) at the given indentation
Stringify(v, gap, ind) ==
    CASE v.t = "num" -> Digits(v.n)
      [] v.t = "str" -> Quoted(v.s)
      [] v.t = "null" -> <<"n","u","l","l">>
      [] v.t = "arr" ->
            IF v.items = <<>> THEN <<"[", "]">>
            ELSE IF gap = 0
            THEN <<"[">> \o StringifyItems(v.items, gap, ind) \o <<"]">>
            ELSE <<"[", "\n">> \o StringifyItems(v.items, gap, ind + gap)
                 \o <<"\n">> \o Spaces(ind) \o <<"]">>
      [] v.t = "obj" ->
            IF v.fields = <<>> THEN <<"{", "}">>
            ELSE IF gap = 0
            THEN <<"{">> \o StringifyFields(v.fields, gap, ind) \o <<"}">>
            ELSE <<"{", "\n">> \o StringifyFields(v.fields, gap, ind + gap)
                 \o <<"\n">> \o Spaces(ind) \o <<"}">>

StringifyItems(items, gap, ind) ==
    LET first == Spaces(IF gap = 0 THEN 0 ELSE ind) \o Stringify(Head(items), gap, ind)
        sep == IF gap = 0 THEN <<",">> ELSE <<",", "\n">>
    IN  IF Len(items) = 1 THEN first
        ELSE first \o sep \o StringifyItems(Tail(items), gap, ind)

StringifyFields(fields, gap, ind) ==
    LET colon == IF gap = 0 THEN <<":">> ELSE <<":", " ">>
        first == Spaces(IF gap = 0 THEN 0 ELSE ind) \o Quoted(Head(fields)[1]) \o colon
                 \o Stringify(Head(fields)[2], gap, ind)
        sep == IF gap = 0 THEN <<",">> ELSE <<",", "\n">>
    IN  IF Len(fields) = 1 THEN first
        ELSE first \o sep \o StringifyFields(Tail(fields), gap, ind)

\* typeof response === 'object'
TypeofObject(v) == v.t \in {"obj", "arr", "null"}

normalize_compact(v) ==
    IF TypeofObject(v)
    THEN [threw |-> FALSE, text |-> Stringify(v, 0, 0)]
    ELSE IF v.t = "undefined"
    THEN [threw |-> TRUE, error |-> ToStringTypeError]
    ELSE IF v.t = "str" THEN [threw |-> FALSE, text |-> v.s]
    ELSE [threw |-> FALSE, text |-> Digits(v.n)]

\* typeof response === 'object' ? JSON.stringify(response, null, 2)
\*                              : response.toString()
normalize(v) ==
    IF TypeofObject(v)
    THEN [threw |-> FALSE, text |-> Stringify(v, 2, 0)]
    ELSE IF v.t = "undefined"
    THEN [threw |-> TRUE, error |-> ToStringTypeError]
    ELSE IF v.t = "str" THEN [threw |-> FALSE, text |-> v.s]
    ELSE [threw |-> FALSE, text |-> Digits(v.n)]


-----------------------------------------------------------------------------
(* The capability builder and the run closure *)

\* the tool is registered under its provider name as it is
registryKey_rawName(d, name, toolType) == name

\* the key a tool is registered under (toolNameMap.set)
registryKey(d, name, toolType) == formatToolName(baseNameOf(d, name, toolType))

\* toCapability: name, the captured toolType and the captured tool
toCapability(d, names, sel) ==
    [name |-> capabilityName(d, names[sel.tool], sel.toolType),
     toolType |-> sel.toolType,
     tool |-> sel.tool]

catchText_noMessage(label, error) ==
    ErrorPrefix \o label \o ColonSpace \o UnknownError

\* the text the catch block returns
catchText(label, error) ==
    ErrorPrefix \o label \o ColonSpace
    \o (IF error.isError THEN error.message ELSE UnknownError)

\* the name the catch block reports: formattedName; allora: tool.name
errorLabel(d, names, cap) == IF d = "allora" THEN names[cap.tool] ELSE cap.name

precondition_noCheck(d, cap, a) == "pass"

\* swap: the check made before the try block
precondition(d, cap, a) ==
    IF d = "swap" /\ cap.toolType = "jupiter" /\ cap.name = s_swap
    THEN IF ~ IsObject(a) THEN "throws"
         ELSE IF ~ HasUserPublicKey(a) THEN "missing" ELSE "pass"
    ELSE "pass"

originalTool_captured(d, map, cap) == cap.tool

originalTool_fallsBack(d, map, cap) ==
    IF cap.name \in DOMAIN map THEN map[cap.name] ELSE cap.tool

\* toolNameMap.get(formattedName), 0 when there is no entry;
\* allora: the tool the closure captured
originalTool(d, map, cap) ==
    IF d = "allora" THEN cap.tool
    ELSE IF cap.name \in DOMAIN map THEN map[cap.name] ELSE 0

NotFoundError(cap) == [isError |-> TRUE, message |-> NotFoundPrefix \o cap.name]

\* run, from its call to the await on execute (or to its end)
runToAwait(d, map, names, cap, a) ==
    LET pre == precondition(d, cap, a)
        tool == originalTool(d, map, cap)
    IN  CASE pre = "throws" ->
                [pc |-> "rejected", tool |-> 0, result |-> InOperatorTypeError.message]
          [] pre = "missing" ->
                [pc |-> "returned", tool |-> 0, result |-> MissingKeyText]
          [] OTHER ->
                IF tool = 0
                THEN [pc |-> "returned", tool |-> 0,
                      result |-> catchText(errorLabel(d, names, cap), NotFoundError(cap))]
                ELSE [pc |-> "awaiting", tool |-> tool, result |-> <<>>]

\* run, from the settling of execute to its return
runAfterAwait(label, o) ==
    IF Throws(o) THEN catchText(label, Thrown(o))
    ELSE LET n == normalize(Response(o))
         IN  IF n.threw THEN catchText(label, n.error) ELSE n.text

IdleCall ==
    [pc |-> "idle", cap |-> 0, args |-> "undefined", tool |-> 0,
     outcome |-> "none", result |-> <<>>]

-----------------------------------------------------------------------------
(* Spec: one deployment *)

\* a description that is not set
NoDescription == [defined |-> FALSE, text |-> <<>>]

ObsIdle ==
    [pc |-> "idle", body |-> "undefined", rest |-> "none", passed |-> <<>>,
     origCalls |-> 0, origOutcome |-> "none", settled |-> "none", value |-> "none"]

Init ==
    /\ driver \in Drivers
    /\ pc = IF driver = "allora" THEN "getTools" ELSE "boot"
    /\ started = FALSE
    /\ allTools = <<>>
    /\ selected = <<>>
    /\ idx = 0
    /\ toolNameMap = EmptyMap
    /\ capabilities = <<>>
    /\ hostCaps = <<>>
    /\ addCalls = 0
    /\ calls = [s \in 1..MaxCalls |-> IdleCall]
    /\ descOrig = NoDescription
    /\ descTool = NoDescription
    /\ descCap = NoDescription
    /\ descPc = "off"
    /\ obs = ObsIdle

\* agent.start(): before main() in swap and dex, before main() is called in
\* coingecko (start().then), after addCapabilities in allora
Start ==
    /\ pc \in {"boot", "start"}
    /\ started' = TRUE
    /\ pc' = IF pc = "boot" THEN "getTools" ELSE "serving"
    /\ UNCHANGED <<driver, allTools, selected, idx, toolNameMap, capabilities,
                   hostCaps, addCalls, calls, descVars, obs>>

\* await getTools(...) resolves
GetTools ==
    /\ pc = "getTools"
    /\ \E names \in ToolLists(driver) : allTools' = names
    /\ pc' = "filter"
    /\ UNCHANGED <<driver, started, selected, idx, toolNameMap, capabilities,
                   hostCaps, addCalls, calls, descVars, obs>>

\* what the runtime does with the rejected promise of main() when nothing
\* handles it: the process ends, or a warning is printed and it goes on
\* (the unhandled-rejections mode of the Node.js that runs the script)
UnhandledRejection == {"exited", "failed"}

\* where a rejection of main() leaves the deployment: allora's
\* main().catch calls process.exit(1); coingecko's main().catch logs the
\* error; swap and dex call main() and handle nothing
mainRejected(d) ==
    CASE d = "allora" -> {"exited"}
      [] d = "coingecko" -> {"failed"}
      [] OTHER -> UnhandledRejection

\* await getTools(...) rejects: main() has no try around it and rejects
GetToolsFails ==
    /\ pc = "getTools"
    /\ pc' \in mainRejected(driver)
    /\ UNCHANGED <<driver, started, allTools, selected, idx, toolNameMap, capabilities,
                   hostCaps, addCalls, calls, descVars, obs>>

\* the filters of main(), and allora's early return on an empty selection
Filter ==
    /\ pc = "filter"
    /\ selected' = selectTools(driver, allTools)
    /\ idx' = 1
    /\ pc' = CASE driver = "allora" /\ selected' = <<>> -> "done"
               [] selected' = <<>> -> "add"
               [] driver \in {"dex", "coingecko"} -> "register"
               [] OTHER -> "build"
    /\ UNCHANGED <<driver, started, allTools, toolNameMap, capabilities,
                   hostCaps, addCalls, calls, descVars, obs>>

\* dex, coingecko: one step of tools.forEach(tool => toolNameMap.set(...))
Register ==
    /\ pc = "register"
    /\ toolNameMap' = MapSet(toolNameMap,
                             formatToolName(allTools[selected[idx].tool]),
                             selected[idx].tool)
    /\ idx' = IF idx = Len(selected) THEN 1 ELSE idx + 1
    /\ pc' = IF idx = Len(selected) THEN "build" ELSE "register"
    /\ UNCHANGED <<driver, started, allTools, selected, capabilities,
                   hostCaps, addCalls, calls, descVars, obs>>

\* one step of tools.map(toCapability); swap registers the tool as it builds
Build ==
    /\ pc = "build"
    /\ LET sel == selected[idx]
           cap == toCapability(driver, allTools, sel)
       IN  /\ capabilities' = Append(capabilities, cap)
           /\ toolNameMap' =
                 IF driver = "swap"
                 THEN MapSet(toolNameMap,
                             registryKey(driver, allTools[sel.tool], sel.toolType),
                             sel.tool)
                 ELSE toolNameMap
    /\ idx' = idx + 1
    /\ pc' = IF idx = Len(selected) THEN "add" ELSE "build"
    /\ UNCHANGED <<driver, started, allTools, selected,
                   hostCaps, addCalls, calls, descVars, obs>>

\* await agent.addCapabilities(capabilities)
AddCapabilities ==
    /\ pc = "add"
    /\ hostCaps' = capabilities
    /\ addCalls' = addCalls + 1
    /\ pc' = IF driver = "allora" THEN "start" ELSE "serving"
    /\ UNCHANGED <<driver, started, allTools, selected, idx, toolNameMap,
                   capabilities, calls, descVars, obs>>

\* the host calls run({args}) of one of its capabilities: the call runs to
\* its await, or to its end
Invoke(s, c, a) ==
    /\ started
    /\ c \in 1..Len(hostCaps)
    /\ calls[s].pc = "idle"
    /\ \A r \in 1..(s - 1) : calls[r].pc # "idle"
    /\ LET r == runToAwait(driver, toolNameMap, allTools, hostCaps[c], a)
       IN  calls' = [calls EXCEPT ![s] =
                        [pc |-> r.pc, cap |-> c, args |-> a, tool |-> r.tool,
                         outcome |-> "none", result |-> r.result]]
    /\ UNCHANGED <<driver, pc, started, allTools, selected, idx, toolNameMap,
                   capabilities, hostCaps, addCalls, descVars, obs>>

\* a failure of one execute also ends every other call that is waiting
Settle_failFast(s, o) ==
    /\ calls[s].pc = "awaiting"
    /\ calls' = [r \in DOMAIN calls |->
                    IF r = s
                    THEN [calls[r] EXCEPT !.pc = "returned", !.outcome = o,
                              !.result = runAfterAwait(
                                  errorLabel(driver, allTools, hostCaps[calls[r].cap]), o)]
                    ELSE IF Throws(o) /\ calls[r].pc = "awaiting"
                    THEN [calls[r] EXCEPT !.pc = "returned",
                              !.result = catchText(
                                  errorLabel(driver, allTools, hostCaps[calls[r].cap]),
                                  Thrown(o))]
                    ELSE calls[r]]
    /\ UNCHANGED <<driver, pc, started, allTools, selected, idx, toolNameMap,
                   capabilities, hostCaps, addCalls, descVars, obs>>

\* the awaited execute(args) settles and run continues to its return
Settle(s, o) ==
    /\ calls[s].pc = "awaiting"
    /\ calls' = [calls EXCEPT ![s] =
                    [@ EXCEPT !.pc = "returned", !.outcome = o,
                              !.result = runAfterAwait(
                                  errorLabel(driver, allTools, hostCaps[calls[s].cap]), o)]]
    /\ UNCHANGED <<driver, pc, started, allTools, selected, idx, toolNameMap,
                   capabilities, hostCaps, addCalls, descVars, obs>>

HostInvokes ==
    \E s \in 1..MaxCalls, c \in 1..Len(hostCaps), a \in ArgsValues : Invoke(s, c, a)

ExecuteSettles == \E s \in 1..MaxCalls, o \in Outcomes : Settle(s, o)

Next ==
    \/ Start
    \/ GetTools
    \/ GetToolsFails
    \/ Filter
    \/ Register
    \/ Build
    \/ AddCapabilities
    \/ HostInvokes
    \/ ExecuteSettles

Spec == Init /\ [][Next]_vars


-----------------------------------------------------------------------------
(* Properties of Spec *)

CallIds == 1..MaxCalls

\* the capability object a call was made on
CalledCap(s) == hostCaps[calls[s].cap]

\* the call reached execute
Executed(s) == calls[s].tool # 0

\* the tool of the capability built last among those with a given name
LastBuilt(n) ==
    capabilities[Max({k \in 1..Len(capabilities) : capabilities[k].name = n})].tool

\* the name is shared by two capabilities built from distinct tools
Shared(n) ==
    \E i, j \in 1..Len(capabilities) :
        /\ i < j
        /\ capabilities[i].name = n
        /\ capabilities[j].name = n
        /\ capabilities[i].tool # capabilities[j].tool

AllBuilt == pc \in {"add", "start", "serving"}

\* C1: run({args}) never completes by throwing: every call that has ended
\* has returned, whatever the args and whatever execute did.
C1_RunNeverThrows == \A s \in CallIds : calls[s].pc # "rejected"

\* C3 as stated: whatever value execute throws, the call returns a text
\* that contains the thrown failure message.
C3_AnyThrownValueReported ==
    \A s \in CallIds :
        Throws(calls[s].outcome) =>
            /\ calls[s].pc = "returned"
            /\ includes(calls[s].result, Thrown(calls[s].outcome).message)

\* C3 amended: a call whose execute throws returns (never rejects); the
\* text names the capability and contains the message of a thrown Error,
\* and 'Unknown error' in place of a thrown value that is no Error.
C3_ThrownErrorReported ==
    \A s \in CallIds :
        Throws(calls[s].outcome) =>
            LET e == Thrown(calls[s].outcome)
            IN  /\ calls[s].pc = "returned"
                /\ startsWith(calls[s].result, ErrorPrefix)
                /\ e.isError => includes(calls[s].result, e.message)
                /\ ~ e.isError =>
                      /\ includes(calls[s].result, UnknownError)
                      /\ ~ includes(calls[s].result, e.message)

C3_Witness ==
    \E s \in CallIds :
        /\ calls[s].outcome = "throwsError"
        /\ calls[s].pc = "returned"
        /\ includes(calls[s].result, BoomMessage)

IsSwapCapability(c) == driver = "swap" /\ c.toolType = "jupiter" /\ c.name = s_swap

\* C6: a call on a swap capability with an args object that lacks
\* userPublicKey returns the fixed text and does not reach execute; with
\* the key present the call reaches execute of the registered tool.
C6_MissingUserPublicKey ==
    \A s \in CallIds :
        (calls[s].pc # "idle" /\ IsSwapCapability(CalledCap(s))) =>
            /\ calls[s].args = "empty" =>
                  /\ calls[s].pc = "returned"
                  /\ calls[s].result = MissingKeyText
                  /\ ~ Executed(s)
            /\ calls[s].args = "withKey" =>
                  /\ Executed(s)
                  /\ calls[s].tool = toolNameMap[s_swap]
                  /\ calls[s].result # MissingKeyText

C6_Witness ==
    \E s \in CallIds :
        /\ calls[s].pc = "returned"
        /\ IsSwapCapability(CalledCap(s))
        /\ calls[s].args = "empty"
        /\ calls[s].result = MissingKeyText


\* the state reached by a step of tools.map(toCapability)
JustBuilt == pc \in {"build", "add"} /\ capabilities # <<>>

\* the capability the last build returned
BuiltCap == capabilities[Len(capabilities)]

\* the tools registered so far: swap registers as it builds, dex and
\* coingecko register every selected tool before they build
RegisteredSoFar ==
    IF driver = "swap" THEN 1..Len(capabilities) ELSE 1..Len(selected)

SelectedName(j) ==
    capabilityName(driver, allTools[selected[j].tool], selected[j].toolType)

\* C4 as stated: in the deployments that keep a registry, right after
\* build(t) the registry resolves the name of the capability built from t
\* to t.
C4_ResolveReturnsBuiltTool ==
    (driver \in RegistryDrivers /\ JustBuilt) =>
        /\ BuiltCap.name \in DOMAIN toolNameMap
        /\ toolNameMap[BuiltCap.name] = BuiltCap.tool

\* C4 amended: in swap, dex and coingecko, right after build(t) the
\* registry resolves the name of t's capability to the tool registered last
\* under that name: t itself unless a tool registered after t has a name
\* that formats to the same key (dex and coingecko register all selected
\* tools before they build any).
C4_ResolveReturnsLastRegistered ==
    (driver \in RegistryDrivers /\ JustBuilt) =>
        LET same == {j \in RegisteredSoFar : SelectedName(j) = BuiltCap.name}
        IN  /\ BuiltCap.name \in DOMAIN toolNameMap
            /\ toolNameMap[BuiltCap.name] = selected[Max(same)].tool
            /\ Max(same) = Len(capabilities) => toolNameMap[BuiltCap.name] = BuiltCap.tool
            /\ driver = "swap" => toolNameMap[BuiltCap.name] = BuiltCap.tool

\* the second of two tools of one formatted name is built and resolved
C4_Witness ==
    /\ driver \in RegistryDrivers
    /\ JustBuilt
    /\ Len(capabilities) = 2
    /\ capabilities[1].name = capabilities[2].name
    /\ BuiltCap.name \in DOMAIN toolNameMap
    /\ toolNameMap[BuiltCap.name] = BuiltCap.tool
    /\ BuiltCap.tool = 2

NoDot(n) == ~ includes(n, <<".">>)

\* C8: formatToolName leaves no '.', changes nothing else, and no
\* capability handed to the host has a '.' in its name.
C8_NoSeparatorInCapabilityNames ==
    /\ \A i \in 1..Len(allTools) :
          LET n == allTools[i]
              f == formatToolName(n)
          IN  /\ Len(f) = Len(n)
              /\ NoDot(f)
              /\ \A k \in 1..Len(n) : n[k] # "." => f[k] = n[k]
    /\ \A k \in 1..Len(hostCaps) : NoDot(hostCaps[k].name)

-----------------------------------------------------------------------------
(* C9: names and normalised results *)

\* the name has the form ns.fn: one '.', with text on both sides
Qualified(n) ==
    /\ Cardinality({i \in 1..Len(n) : n[i] = "."}) = 1
    /\ n[1] # "." /\ n[Len(n)] # "."

DotAt(n) == CHOOSE i \in 1..Len(n) : n[i] = "."

NsOf(n) == SubSeq(n, 1, DotAt(n) - 1)

FnOf(n) == SubSeq(n, DotAt(n) + 1, Len(n))

\* JSON.stringify({price: 123}, null, 2)
PrettyPrice ==
    <<"{","\n"," "," ","\"","p","r","i","c","e","\"",":"," ","1","2","3","\n","}">>

\* JSON.stringify({pairs: [{price: 7}, null], quote: "ok"}, null, 2)
PrettyNested ==
    <<"{","\n"," "," ","\"","p","a","i","r","s","\"",":"," ","[","\n",
      " "," "," "," ","{","\n"," "," "," "," "," "," ","\"","p","r","i","c","e","\"",
      ":"," ","7","\n"," "," "," "," ","}",",","\n"," "," "," "," ","n","u","l","l",
      "\n"," "," ","]",",","\n"," "," ","\"","q","u","o","t","e","\"",":"," ",
      "\"","o","k","\"","\n","}">>

StructuredResults ==
    \A s \in CallIds :
        /\ calls[s].outcome = "object" =>
              calls[s].pc = "returned" /\ calls[s].result = PrettyPrice
        /\ calls[s].outcome = "nested" =>
              calls[s].pc = "returned" /\ calls[s].result = PrettyNested

\* the alias tables as the sources write them
AliasOf(fn) ==
    CASE driver = "swap" /\ fn \in {s_quote, s_get_quote} -> s_get_quote
      [] driver = "swap" /\ fn \in {s_swapTokens, s_swap} -> s_swap
      [] driver = "allora" /\ fn \in {s_price_prediction, s_get_price_prediction} ->
            s_get_price_prediction
      [] OTHER -> fn

\* C9 as stated: a tool named ns.fn yields a capability named ns_fn, and a
\* call whose execute returns a structured value returns its pretty-printed
\* text.
C9_QualifiedNameAndPrettyResult ==
    /\ \A k \in 1..Len(capabilities) :
          LET n == allTools[capabilities[k].tool]
          IN  Qualified(n) => capabilities[k].name = NsOf(n) \o <<"_">> \o FnOf(n)
    /\ StructuredResults

\* C9 amended: in dex and coingecko a tool named ns.fn yields a capability
\* named ns_fn; in swap and allora the capability is named after fn alone
\* (a Jupiter tool in swap, and any tool in allora, through the alias
\* table); in all four a call whose execute returns a structured value
\* returns JSON.stringify(value, null, 2).
C9_NamePerDeploymentAndPrettyResult ==
    /\ \A k \in 1..Len(capabilities) :
          LET n == allTools[capabilities[k].tool]
          IN  Qualified(n) =>
                capabilities[k].name =
                    CASE driver \in {"dex", "coingecko"} -> NsOf(n) \o <<"_">> \o FnOf(n)
                      [] driver = "swap" /\ capabilities[k].toolType = "dexscreener" -> FnOf(n)
                      [] OTHER -> AliasOf(FnOf(n))
    /\ StructuredResults

C9_Witness ==
    \E s \in CallIds :
        /\ driver = "dex"
        /\ calls[s].pc = "returned"
        /\ calls[s].outcome = "object"
        /\ allTools[CalledCap(s).tool] = s_dexscreener_search_pairs
        /\ CalledCap(s).name = n_dexscreener_search_pairs_flat
        /\ calls[s].result = PrettyPrice


-----------------------------------------------------------------------------
(* SpecRun: the run closures of a set-up deployment, applied to a registry  *)
(* that holds what set-up wrote, or all of it but one entry.  run reads     *)
(* toolNameMap, a module-level Map, when it is called; what it does when    *)
(* the entry is not there is the dispatcher's answer to an unregistered     *)
(* name.                                                                    *)

RECURSIVE registerAll(_, _, _, _)
\* the registry after every selected tool is registered, in build order
registerAll(d, names, sel, m) ==
    IF sel = <<>> THEN m
    ELSE registerAll(d, names, Tail(sel),
                     MapSet(m, registryKey(d, names[Head(sel).tool], Head(sel).toolType),
                            Head(sel).tool))

\* allora has no toolNameMap
registryAfterSetup(d, names) ==
    IF d = "allora" THEN EmptyMap
    ELSE registerAll(d, names, selectTools(d, names), EmptyMap)

Restrict(m, K) == [x \in K |-> m[x]]

InitRun ==
    /\ driver \in Drivers
    /\ allTools \in ToolLists(driver)
    /\ selected = selectTools(driver, allTools)
    /\ capabilities = [k \in 1..Len(selected) |-> toCapability(driver, allTools, selected[k])]
    /\ hostCaps = capabilities
    /\ LET full == registryAfterSetup(driver, allTools)
       IN  \/ toolNameMap = full
           \/ \E k \in DOMAIN full : toolNameMap = Restrict(full, DOMAIN full \ {k})
    /\ idx = Len(selected) + 1
    /\ addCalls = 1
    /\ pc = "serving"
    /\ started = TRUE
    /\ calls = [s \in 1..MaxCalls |-> IdleCall]
    /\ descOrig = NoDescription
    /\ descTool = NoDescription
    /\ descCap = NoDescription
    /\ descPc = "off"
    /\ obs = ObsIdle

NextRun ==
    \/ HostInvokes
    \/ ExecuteSettles

SpecRun == InitRun /\ [][NextRun]_vars

Unregistered(s) == CalledCap(s).name \notin DOMAIN toolNameMap

NotFoundText(n) == ErrorPrefix \o n \o ColonSpace \o NotFoundPrefix \o n

-----------------------------------------------------------------------------
(* SpecDesc: the description a capability is built with *)

DescLimit == 1000

MaxOver == 2

TruncationSuffix == <<".",".","."," ","(","t","r","u","n","c","a","t","e","d",")">>

\* a text of the given length
TextOf(len, pattern) ==
    [i \in 1..len |-> IF pattern = 1 THEN <<"a", "b", "c">>[(i % 3) + 1] ELSE "x"]

DescLengths == {0, 1} \cup ((DescLimit - MaxOver)..(DescLimit + MaxOver))

Descriptions ==
    {NoDescription}
    \cup {[defined |-> TRUE, text |-> TextOf(len, p)] : len \in DescLengths, p \in {1, 2}}

\* tool.description ? tool.description.length : 0
descLength(d) == IF d.defined /\ d.text # <<>> THEN Len(d.text) ELSE 0

\* String.prototype.substring(0, n)
substring0(s, n) == SubSeq(s, 1, IF Len(s) < n THEN Len(s) ELSE n)

guardDescription_atLimit(d) ==
    IF descLength(d) >= DescLimit
    THEN [defined |-> TRUE, text |-> substring0(d.text, DescLimit) \o TruncationSuffix]
    ELSE d

\* coingecko: the forEach that truncates long descriptions in place
guardDescription(d) ==
    IF descLength(d) > DescLimit
    THEN [defined |-> TRUE, text |-> substring0(d.text, DescLimit) \o TruncationSuffix]
    ELSE d

InitDesc ==
    /\ driver \in Drivers
    /\ descOrig \in Descriptions
    /\ descTool = descOrig
    /\ descCap = NoDescription
    /\ descPc = IF driver = "coingecko" THEN "guard" ELSE "build"
    /\ pc = "filter"
    /\ started = (driver # "allora")
    /\ allTools = <<>>
    /\ selected = <<>>
    /\ idx = 0
    /\ toolNameMap = EmptyMap
    /\ capabilities = <<>>
    /\ hostCaps = <<>>
    /\ addCalls = 0
    /\ calls = [s \in 1..MaxCalls |-> IdleCall]
    /\ obs = ObsIdle

\* coingecko: tool.description = tool.description.substring(0, 1000) + "... (truncated)"
DescGuard ==
    /\ descPc = "guard"
    /\ descTool' = guardDescription(descTool)
    /\ descPc' = "build"
    /\ UNCHANGED <<mainVars, descOrig, descCap, obs>>

\* toCapability: description: tool.description
DescBuild ==
    /\ descPc = "build"
    /\ descCap' = descTool
    /\ descPc' = "done"
    /\ UNCHANGED <<mainVars, descOrig, descTool, obs>>

NextDesc ==
    \/ DescGuard
    \/ DescBuild

SpecDesc == InitDesc /\ [][NextDesc]_vars

Truncated(d) ==
    /\ d.defined
    /\ Len(d.text) = DescLimit + Len(TruncationSuffix)
    /\ SubSeq(d.text, 1, DescLimit) = SubSeq(descOrig.text, 1, DescLimit)
    /\ SubSeq(d.text, DescLimit + 1, Len(d.text)) = TruncationSuffix

-----------------------------------------------------------------------------
(* SpecObserver: the function assigned to openai.chat.completions.create *)

\* the drivers that install the wrapper (allora installs none)
ObserverDrivers == {"swap", "dex", "coingecko"}

\* the request bodies: the value of body, whether it has a 'tools' key, and
\* the value under the key
Bodies ==
    {"undefined", "noTools", "toolsEmpty", "toolsList", "toolsNoFunction",
     "toolsNullEntry", "toolsUndefined", "toolsText"}

\* body && 'tools' in body
hasToolsKey(b) == b \notin {"undefined", "noTools"}

\* body.tools
toolsOf(b) ==
    CASE b = "toolsEmpty" -> [kind |-> "list", items |-> <<>>]
      [] b = "toolsList" -> [kind |-> "list", items |-> <<"short", "long">>]
      [] b = "toolsNoFunction" -> [kind |-> "list", items |-> <<"noFunction">>]
      [] b = "toolsNullEntry" -> [kind |-> "list", items |-> <<"short", "null">>]
      [] b = "toolsUndefined" -> [kind |-> "undefined", items |-> <<>>]
      [] b = "toolsText" -> [kind |-> "text", items |-> <<>>]

\* coingecko: body.tools.forEach(tool => tool.function && ...): throws when
\* body.tools has no forEach, and when an entry is null
scanThrows(tools) ==
    \/ tools.kind # "list"
    \/ \E i \in 1..Len(tools.items) : tools.items[i] = "null"

\* swap, dex: console.log(JSON.stringify(body.tools, null, 2)) throws for
\* none of these values
logThrows(tools) == FALSE

\* the observation made before the original call is delegated to
observeThrows(d, b) ==
    /\ hasToolsKey(b)
    /\ IF d = "coingecko" THEN scanThrows(toolsOf(b)) ELSE logThrows(toolsOf(b))

CompletionOutcomes == {"completionA", "completionB", "failure"}

InitObserver ==
    /\ driver \in ObserverDrivers
    /\ obs = ObsIdle
    /\ pc = "serving"
    /\ started = TRUE
    /\ allTools = <<>>
    /\ selected = <<>>
    /\ idx = 1
    /\ toolNameMap = EmptyMap
    /\ capabilities = <<>>
    /\ hostCaps = <<>>
    /\ addCalls = 1
    /\ calls = [s \in 1..MaxCalls |-> IdleCall]
    /\ descOrig = NoDescription
    /\ descTool = NoDescription
    /\ descCap = NoDescription
    /\ descPc = "off"

\* the wrapper is called with (body, ...rest): it observes, then returns the
\* original call's promise; an exception in the async wrapper rejects
ObsCall(b, r) ==
    /\ obs.pc = "idle"
    /\ obs' = IF observeThrows(driver, b)
              THEN [obs EXCEPT !.pc = "done", !.body = b, !.rest = r,
                               !.settled = "rejected", !.value = "TypeError"]
              ELSE [obs EXCEPT !.pc = "delegated", !.body = b, !.rest = r,
                               !.passed = <<b, r>>, !.origCalls = @ + 1]
    /\ UNCHANGED <<mainVars, descVars>>

\* the original call settles, and with it the promise the wrapper returned
ObsSettle(o) ==
    /\ obs.pc = "delegated"
    /\ obs' = [obs EXCEPT !.pc = "done", !.origOutcome = o,
                          !.settled = IF o = "failure" THEN "rejected" ELSE "resolved",
                          !.value = o]
    /\ UNCHANGED <<mainVars, descVars>>

WrappedCall == \E b \in Bodies, r \in {"none", "options"} : ObsCall(b, r)

OriginalSettles == \E o \in CompletionOutcomes : ObsSettle(o)

NextObserver ==
    \/ WrappedCall
    \/ OriginalSettles

SpecObserver == InitObserver /\ [][NextObserver]_vars

\* the bodies C10 names: no tool list, a tool list, a 'tools' key whose
\* value is absent or no list
ClaimedBodies == Bodies \ {"toolsNullEntry"}

\* C10: a wrapped invocation, with any of these bodies, calls the original
\* exactly once with the same arguments, and ends with the original's
\* result.
C10_ObserverTransparent ==
    (obs.pc # "idle" /\ obs.body \in ClaimedBodies) =>
        /\ obs.origCalls = 1
        /\ obs.passed = <<obs.body, obs.rest>>
        /\ obs.pc = "done" =>
              /\ obs.value = obs.origOutcome
              /\ obs.settled = IF obs.origOutcome = "failure" THEN "rejected" ELSE "resolved"

-----------------------------------------------------------------------------
(* SpecPair: several calls of run in flight at once.  run is an async      *)
(* function: a call runs to its await on execute, and its continuation     *)
(* runs when that execute settles; calls interleave at the await only.     *)

\* the number of calls the host has in flight
PairCalls == 2

PairIds == 1..PairCalls

\* a deployment of two tools for each driver
PairTools(d) ==
    CASE d = "swap" -> <<n_j_swapTokens, n_dexscreener_search_pairs>>
      [] d = "dex" -> <<n_dexscreener_search_pairs, n_dexscreener_search_pairs_flat>>
      [] d = "allora" -> <<n_a_price_prediction, n_allora_dot>>
      [] d = "coingecko" -> <<n_dexscreener_search_pairs, n_x_quote>>

\* what execute does in SpecPair
PairOutcomes == {"object", "undefined", "throwsError", "throwsString"}

InitPair ==
    /\ driver \in Drivers
    /\ allTools = PairTools(driver)
    /\ selected = selectTools(driver, allTools)
    /\ capabilities = [k \in 1..Len(selected) |-> toCapability(driver, allTools, selected[k])]
    /\ hostCaps = capabilities
    /\ toolNameMap = registryAfterSetup(driver, allTools)
    /\ idx = Len(selected) + 1
    /\ addCalls = 1
    /\ pc = "serving"
    /\ started = TRUE
    /\ calls = [s \in PairIds |-> IdleCall]
    /\ descOrig = NoDescription
    /\ descTool = NoDescription
    /\ descCap = NoDescription
    /\ descPc = "off"
    /\ obs = ObsIdle

PairInvokes ==
    \E s \in PairIds, c \in 1..Len(hostCaps), a \in ArgsValues : Invoke(s, c, a)

\* an execute settles; one that never completes never takes this step
PairSettles == \E s \in PairIds, o \in PairOutcomes : Settle(s, o)

NextPair ==
    \/ PairInvokes
    \/ PairSettles

SpecPair == InitPair /\ [][NextPair]_vars

\* what a call on capability c with args a does up to its await, alone
Alone(c, a) == runToAwait(driver, toolNameMap, allTools, hostCaps[c], a)

\* the call is as a call made alone would be: its position, its tool and
\* its result are those of its own capability, args and execute outcome
AsAlone(s) ==
    LET call == calls[s]
        solo == Alone(call.cap, call.args)
    IN  IF call.pc = "idle" THEN call = IdleCall
        ELSE IF call.outcome = "none"
        THEN /\ call.pc = solo.pc
             /\ call.tool = solo.tool
             /\ call.result = solo.result
        ELSE /\ solo.pc = "awaiting"
             /\ call.pc = "returned"
             /\ call.tool = solo.tool
             /\ call.result =
                   runAfterAwait(errorLabel(driver, allTools, hostCaps[call.cap]),
                                 call.outcome)

\* the call waits on its own execute only: whatever the other calls do, it
\* can continue as soon as its execute settles
NotBlocked(s) ==
    calls[s].pc = "awaiting" => \A o \in PairOutcomes : ENABLED Settle(s, o)

\* C11: calls in flight together are independent: each is, in every
\* interleaving, what it would be alone (a failed or never-completing
\* execute of another call changes neither its position nor its result),
\* and a call at its await is never blocked by another call.
C11_ConcurrentCallsIndependent ==
    \A s \in PairIds : AsAlone(s) /\ NotBlocked(s)

\* a call has returned its pretty-printed result while the call made
\* before it still waits on an execute that has not completed
C11_Witness ==
    /\ calls[1].pc = "awaiting"
    /\ calls[2].pc = "returned"
    /\ calls[2].outcome = "object"
    /\ calls[2].result = PrettyPrice

-----------------------------------------------------------------------------
(* Start-up order, failure of discovery, the capability list *)

\* the script is in its set-up: discovery, selection, registration, building
\* or the addCapabilities call are still to be done
InSetup == pc \in {"boot", "getTools", "filter", "register", "build", "add"}

\* the registry is being written
WritingRegistry ==
    \/ pc = "register"
    \/ driver = "swap" /\ pc = "build"

\* C12: set-up runs once and is complete before the host is started: the
\* host is never started while set-up is unfinished, in particular not
\* while the registry is being written, and addCapabilities is called at
\* most once.
C12_SetupCompleteBeforeStart ==
    /\ started => ~ InSetup
    /\ started => ~ WritingRegistry
    /\ addCalls <= 1

\* C13: when getTools fails the deployment ends: it is never left as a
\* started host that has no capability set.
C13_DiscoveryFailureIsFatal ==
    ~ (pc = "failed" /\ started /\ hostCaps = <<>>)

\* C15: addCapabilities is never called with an empty sequence.
C15_AddCapabilitiesNonEmpty ==
    addCalls > 0 => hostCaps # <<>>

-----------------------------------------------------------------------------
(* C14, C16: what set-up and invocation leave alone *)

\* C14: a tool is never changed: its description stays the one the
\* provider listed, through the long-description guard and the build; the
\* guard changes the capability's description only.
C14_ToolDescriptionUnchanged == descTool = descOrig

\* every capability handed to the host has a registry entry under its name
HandedAreRegistered ==
    driver \in RegistryDrivers =>
        \A k \in 1..Len(hostCaps) : hostCaps[k].name \in DOMAIN toolNameMap

\* no call has taken the 'Original tool not found' branch
NoCallNotFound ==
    \A s \in CallIds :
        calls[s].pc # "idle" =>
            /\ calls[s].result # NotFoundText(CalledCap(s).name)
            /\ ~ includes(calls[s].result, NotFoundPrefix)

\* once capabilities are handed to the host the registry is not written
RegistryReadOnly == hostCaps # <<>> => toolNameMap' = toolNameMap

\* C16: in swap, dex and coingecko every capability handed to the host has
\* a registry entry under its name, the registry does not change once
\* capabilities are handed over (no invocation writes it), and no
\* invocation by the host takes the 'Original tool not found' branch.
C16_HandedCapabilitiesStayRegistered ==
    /\ [](HandedAreRegistered /\ NoCallNotFound)
    /\ [][RegistryReadOnly]_vars

\* a call by the host has resolved its tool in the registry and is at the
\* await on execute
C16_Witness ==
    /\ driver \in RegistryDrivers
    /\ calls[1].pc = "awaiting"
    /\ CalledCap(1).name \in DOMAIN toolNameMap
    /\ calls[1].tool = toolNameMap[CalledCap(1).name]
    /\ Len(hostCaps) = 2

=============================================================================
